---- MODULE Spec2Model ----
(***************************************************************************)
(* Block-lattice ledger: the block type system (transaction.rs), the work  *)
(* predicate (types.rs) and the storage engine (blockstorage.rs).          *)
(*                                                                         *)
(* 32-byte values (Hash, PubKey) are records: Raw(n) for key material and  *)
(* [blake2b |-> elements] for a digest of a list of hash elements.  The    *)
(* digest is collision free on the byte strings it is fed and carries no   *)
(* type tag, exactly as hash_impl feeds only hash_elements to Blake2b.     *)
(* Option<T> is None / Some(x).  A panic that unwinds out of insert is a   *)
(* result of its own; the Storage value outlives the unwinding (a caller   *)
(* behind catch_unwind keeps using it), so later calls see what the        *)
(* panicking call wrote.                                                   *)
(***************************************************************************)
EXTENDS Integers, FiniteSets, Sequences, TLC

VARIABLES transactions, heads, unspent, lastTx, lastResult, inFlight

vars == <<transactions, heads, unspent, lastTx, lastResult, inFlight>>

ledger == <<transactions, heads, unspent>>

-----------------------------------------------------------------------------
(* Bounds of the model *)

\* Inserts are attempted while the ledger holds at most this many blocks.
MaxBlocks == 3

\* genesis::BALANCE is u128::max_value(); the model's balances are this wide.
BALANCE == 2

\* Work nonces range over 0..MaxWork.
MaxWork == 2

-----------------------------------------------------------------------------
(* Values *)

None == [none |-> TRUE]

Some(x) == [some |-> x]

IsSome(o) == "some" \in DOMAIN o

Raw(n) == [raw |-> n]

LIVE_KEY == Raw("G")

LIVE_SOURCE == Raw("G")

\* Keys for which a keypair exists (valid curve points).
CurvePoints == {Raw("G"), Raw("A")}

\* 32 bytes that decode to no ed25519 public key.
NotAPoint == Raw("X")

U128Modulus == BALANCE + 1

BalanceAdd(a, b) == (a + b) % U128Modulus

BalanceSub(a, b) == (a - b) % U128Modulus

AddOverflows(a, b) == a + b > BALANCE

SubOverflows(a, b) == b > a

Sign(key, msg) == [signer |-> key, msg |-> msg]

DefaultSignature == [zeros |-> TRUE]

TryIntoPublicKey(pubkey) == pubkey \in CurvePoints

SignatureVerify(pubkey, msg, sig) ==
    /\ "signer" \in DOMAIN sig
    /\ sig.signer = pubkey
    /\ sig.msg = msg

-----------------------------------------------------------------------------
(* Hashing *)

BalanceBytes(b) == [u128 |-> b]

\* Mutant of hash_elements: the nonce is hashed with the other fields.
HashElementsWithWork(tx) ==
    CASE tx.type = "Open" ->
            <<tx.source, tx.representative, tx.account, [u64 |-> tx.work]>>
      [] tx.type = "Send" ->
            <<tx.previous, tx.destination, BalanceBytes(tx.balance),
              [u64 |-> tx.work]>>
      [] tx.type = "Receive" -> <<tx.previous, tx.source, [u64 |-> tx.work]>>
      [] tx.type = "Change" ->
            <<tx.previous, tx.representative, [u64 |-> tx.work]>>

\* Mutant of hash_elements: a Send's `previous` is left out of its hash.
HashElementsWithoutPrevious(tx) ==
    CASE tx.type = "Open" -> <<tx.source, tx.representative, tx.account>>
      [] tx.type = "Send" -> <<tx.destination, BalanceBytes(tx.balance)>>
      [] tx.type = "Receive" -> <<tx.previous, tx.source>>
      [] tx.type = "Change" -> <<tx.previous, tx.representative>>

hash_elements(tx) ==
    CASE tx.type = "Open" -> <<tx.source, tx.representative, tx.account>>
      [] tx.type = "Send" -> <<tx.previous, tx.destination, BalanceBytes(tx.balance)>>
      [] tx.type = "Receive" -> <<tx.previous, tx.source>>
      [] tx.type = "Change" -> <<tx.previous, tx.representative>>

Hash(tx) == [blake2b |-> hash_elements(tx)]

-----------------------------------------------------------------------------
(* Work *)

RAI_WORK_THRESHOLD == 12

work_element(tx) == IF tx.type = "Open" THEN tx.account ELSE tx.previous

\* Blake2b with an 8-byte output, as a fixed table of two base-4 digits
\* over the element hashed and the nonce: the digests read 12 (the
\* threshold), 13 and 14 (above) and 5 (below).  A block whose element is a
\* key has two valid nonces, one whose element is a hash has one.
work_impl(tx, work) ==
    IF "raw" \in DOMAIN work_element(tx)
    THEN CASE work = 0 -> <<1, 3>>
           [] work = 1 -> <<2, 3>>
           [] OTHER -> <<1, 1>>
    ELSE CASE work = 0 -> <<0, 3>>
           [] work = 1 -> <<1, 3>>
           [] OTHER -> <<1, 1>>

LEReadU64(bytes) == bytes[1] + 4 * bytes[2]

\* Mutant of WorkHashVerify: >= where the code has >.
WorkHashVerifyAtLeast(workhash) == LEReadU64(workhash) >= RAI_WORK_THRESHOLD

WorkHashVerify(workhash) == LEReadU64(workhash) > RAI_WORK_THRESHOLD

work_validate(tx) == work_impl(tx, tx.work)

verify_work(tx) == IF WorkHashVerify(work_validate(tx)) THEN "Ok" ELSE "Work"

-----------------------------------------------------------------------------
(* Genesis *)

LIVE_BLOCK ==
    LET body == [type |-> "Open", account |-> LIVE_KEY, source |-> LIVE_SOURCE,
                 representative |-> LIVE_KEY, work |-> 0,
                 signature |-> DefaultSignature]
    IN  [body EXCEPT !.signature = Sign(LIVE_KEY, Hash(body))]

-----------------------------------------------------------------------------
(* Failure *)

Failure == {"Duplicate", "Signature", "Fork", "Work", "Received", "ZeroSend",
            "OverSend", "Missing", "Invalid", "Unreachable"}

-----------------------------------------------------------------------------
(* Storage reads *)

Lookup(hash) ==
    IF hash \in DOMAIN transactions THEN Some(transactions[hash].tx) ELSE None

FindHead(pubkey) == IF pubkey \in DOMAIN heads THEN Some(heads[pubkey]) ELSE None

FindBalance(hash) ==
    IF hash \in DOMAIN transactions THEN Some(transactions[hash].bal) ELSE None

\* Mutant of IsUnspent: membership asked of the wrong collection.
IsUnspentOfTransactions(hash) == hash \in DOMAIN transactions

IsUnspent(hash) == hash \in unspent

PanicUnreachable == [panic |-> "unreachable"]

Diverges == [diverges |-> TRUE]

IsPanic(o) == "panic" \in DOMAIN o

RECURSIVE FindOpenLoop(_, _)
FindOpenLoop(hash, fuel) ==
    LET t == Lookup(hash)
    IN  IF fuel = 0 THEN Diverges
        ELSE IF ~IsSome(t) THEN PanicUnreachable
        ELSE IF t.some.type = "Open" THEN Some(t.some)
        ELSE FindOpenLoop(t.some.previous, fuel - 1)

\* Mutant of FindOpen: one `previous` link is followed, not the whole chain.
FindOpenOneLink(hash) ==
    LET first == Lookup(hash)
    IN  IF ~IsSome(first) THEN None
        ELSE IF first.some.type = "Open" THEN first
        ELSE IF ~IsSome(Lookup(first.some.previous)) THEN PanicUnreachable
        ELSE IF Lookup(first.some.previous).some.type = "Open"
            THEN Lookup(first.some.previous)
        ELSE None

FindOpen(hash) ==
    LET first == Lookup(hash)
    IN  IF ~IsSome(first) THEN None
        ELSE FindOpenLoop(IF first.some.type = "Open" THEN hash
                          ELSE first.some.previous,
                          Cardinality(DOMAIN transactions) + 1)

\* Option::map(|o| o.account)
MapAccount(o) == IF IsSome(o) THEN Some(o.some.account) ELSE o

FindKey(hash) == MapAccount(FindOpen(hash))

-----------------------------------------------------------------------------
(* Block verification *)

Ok(x) == [ok |-> x]

Err(e) == [err |-> e]

IsOk(r) == "ok" \in DOMAIN r

\* The `?` operator on Result<(), Failure>: the first failure is returned.
AndThen(first, rest) == IF first # "Ok" THEN first ELSE rest

\* Mutant of VerifyAgainst: the signature is verified against the key that
\* made it, not against the key of the chain.
VerifyAgainstAnySigner(tx, k) ==
    IF IsPanic(k) THEN Err("PanicUnreachable")
    ELSE IF k = None THEN Err("Missing")
    ELSE IF ~IsSome(k) THEN Err("Diverges")
    ELSE IF ~TryIntoPublicKey(k.some) THEN Err("Signature")
    ELSE IF "signer" \in DOMAIN tx.signature /\ tx.signature.msg = Hash(tx)
        THEN Ok(k.some)
    ELSE Err("Signature")

\* Mutant of VerifyAgainst: an absent `previous` is reported as a bad signature.
VerifyAgainstAbsentAsSignature(tx, k) ==
    IF IsPanic(k) THEN Err("PanicUnreachable")
    ELSE IF k = None THEN Err("Signature")
    ELSE IF ~IsSome(k) THEN Err("Diverges")
    ELSE IF ~TryIntoPublicKey(k.some) THEN Err("Signature")
    ELSE IF SignatureVerify(k.some, Hash(tx), tx.signature) THEN Ok(k.some)
    ELSE Err("Signature")

\* The signature check against the key find_key resolved.
VerifyAgainst(tx, k) ==
    IF IsPanic(k) THEN Err("PanicUnreachable")
    ELSE IF k = None THEN Err("Missing")
    ELSE IF ~IsSome(k) THEN Err("Diverges")
    ELSE IF ~TryIntoPublicKey(k.some) THEN Err("Signature")
    ELSE IF SignatureVerify(k.some, Hash(tx), tx.signature) THEN Ok(k.some)
    ELSE Err("Signature")

\* verify_sig of Send, Receive and Change: the key is the account of the
\* Open block at the root of the chain holding `previous`.
ChainVerifySig(tx) == VerifyAgainst(tx, FindKey(tx.previous))

OpenVerifySig(tx) ==
    IF ~TryIntoPublicKey(tx.account) THEN "Signature"
    ELSE IF SignatureVerify(tx.account, Hash(tx), tx.signature) THEN "Ok"
    ELSE "Signature"

\* Mutant of SourceCheck: the destination of the source is not compared.
SourceCheckAnyDestination(source, pubkey, isUnspent) ==
    IF ~IsSome(source) THEN "Missing"
    ELSE IF source.some.type # "Send" THEN "Invalid"
    ELSE IF isUnspent THEN "Ok"
    ELSE "Received"

\* Mutant of SourceCheck: the failures for an absent source and for a source
\* of the wrong variant are exchanged.
SourceCheckSwapped(source, pubkey, isUnspent) ==
    IF ~IsSome(source) THEN "Invalid"
    ELSE IF source.some.type # "Send" THEN "Missing"
    ELSE IF source.some.destination # pubkey THEN "Invalid"
    ELSE IF isUnspent THEN "Ok"
    ELSE "Received"

\* verify_parent of Open and Receive, `pubkey` the key the source must name.
SourceCheck(source, pubkey, isUnspent) ==
    IF ~IsSome(source) THEN "Missing"
    ELSE IF source.some.type # "Send" THEN "Invalid"
    ELSE IF source.some.destination # pubkey THEN "Invalid"
    ELSE IF isUnspent THEN "Ok"
    ELSE "Received"

OpenVerifyParent(tx) ==
    SourceCheck(Lookup(tx.source), tx.account, IsUnspent(tx.source))

\* Mutant of OpenVerify: the work is checked before the signature.
OpenVerifyWorkFirst(tx) ==
    AndThen(verify_work(tx), AndThen(OpenVerifySig(tx), OpenVerifyParent(tx)))

OpenVerify(tx) ==
    AndThen(OpenVerifySig(tx), AndThen(verify_work(tx), OpenVerifyParent(tx)))

SendVerifySig(tx) == ChainVerifySig(tx)

\* Mutant of BalanceCheck: >= where the code has >.
BalanceCheckStrict(balance, bal) ==
    IF ~IsSome(bal) THEN "Unreachable"
    ELSE IF balance >= bal.some THEN "OverSend"
    ELSE "Ok"

BalanceCheck(balance, bal) ==
    IF ~IsSome(bal) THEN "Unreachable"
    ELSE IF balance > bal.some THEN "OverSend"
    ELSE "Ok"

SendVerifyBalance(tx) == BalanceCheck(tx.balance, FindBalance(tx.previous))

\* Mutant of SigThen: the failure of verify_sig is not propagated.
SigThenDropped(sig, rest) == rest

\* let pubkey = self.verify_sig(storage)?; then the rest of verify
SigThen(sig, rest) == IF ~IsOk(sig) THEN sig.err ELSE rest

\* Mutant of SendVerify: the signature is checked before the work.
SendVerifySigFirst(tx) ==
    SigThen(SendVerifySig(tx), AndThen(verify_work(tx), SendVerifyBalance(tx)))

SendVerify(tx) ==
    AndThen(verify_work(tx), SigThen(SendVerifySig(tx), SendVerifyBalance(tx)))

ReceiveVerifySig(tx) == ChainVerifySig(tx)

ReceiveVerifyParent(tx, pubkey) ==
    SourceCheck(Lookup(tx.source), pubkey, IsUnspent(tx.source))

ReceiveParentOf(tx, sig) ==
    IF ~IsOk(sig) THEN sig.err ELSE ReceiveVerifyParent(tx, sig.ok)

ReceiveVerify(tx) ==
    AndThen(verify_work(tx), ReceiveParentOf(tx, ReceiveVerifySig(tx)))

ChangeVerifySig(tx) == ChainVerifySig(tx)

\* Mutant of ChangeVerify: the work is checked before the signature.
ChangeVerifyWorkFirst(tx) ==
    AndThen(verify_work(tx), SigThen(ChangeVerifySig(tx), "Ok"))

ChangeVerify(tx) == SigThen(ChangeVerifySig(tx), verify_work(tx))

Verify(tx) ==
    CASE tx.type = "Open" -> OpenVerify(tx)
      [] tx.type = "Send" -> SendVerify(tx)
      [] tx.type = "Receive" -> ReceiveVerify(tx)
      [] tx.type = "Change" -> ChangeVerify(tx)

-----------------------------------------------------------------------------
(* insert *)

\* ok_or(Failure::Unreachable) on what find_key gave, the unreachable!() of
\* find_open unwinding through it.
OkOrUnreachable(k) ==
    IF IsSome(k) THEN Ok(k.some)
    ELSE IF IsPanic(k) THEN Err("PanicUnreachable")
    ELSE IF k = None THEN Err("Unreachable")
    ELSE Err("Diverges")

KeyOrUnreachable(hash) == OkOrUnreachable(FindKey(hash))

\* prev_bal - bal.  `checked` is the build's overflow-checks setting: the
\* subtraction panics when it is on and wraps when it is off.
GainOf(prev_bal, bal, checked) ==
    IF ~IsSome(prev_bal) THEN Err("Unreachable")
    ELSE IF SubOverflows(prev_bal.some, bal.some) /\ checked
        THEN Err("PanicOverflow")
    ELSE Ok(BalanceSub(prev_bal.some, bal.some))

\* The amount a Send moved: balance at its `previous` minus its cached balance.
SourceGain(source, checked) ==
    IF ~IsSome(FindBalance(source)) THEN Err("Unreachable")
    ELSE IF ~IsSome(Lookup(source)) THEN Err("Unreachable")
    ELSE IF Lookup(source).some.type # "Send" THEN Err("Invalid")
    ELSE GainOf(FindBalance(Lookup(source).some.previous), FindBalance(source),
                checked)

OpenDerived(o, bal) ==
    IF ~IsOk(bal) THEN bal
    ELSE Ok([bal |-> bal.ok, key |-> o.account, parent |-> None])

DeriveOpen(o, checked) == OpenDerived(o, SourceGain(o.source, checked))

ReceiveDerived(r, gain, prev, key, checked) ==
    IF ~IsOk(gain) THEN gain
    ELSE IF ~IsSome(prev) THEN Err("Unreachable")
    ELSE IF AddOverflows(prev.some, gain.ok) /\ checked THEN Err("PanicOverflow")
    ELSE IF ~IsOk(key) THEN key
    ELSE Ok([bal |-> BalanceAdd(prev.some, gain.ok), key |-> key.ok,
             parent |-> Some(r.previous)])

DeriveReceive(r, checked) ==
    ReceiveDerived(r, SourceGain(r.source, checked), FindBalance(r.previous),
                   KeyOrUnreachable(r.previous), checked)

\* Mutant of SendDerived: the amount sent is cached, not the resulting balance.
SendDerivedDelta(s, key) ==
    IF ~IsOk(key) THEN key
    ELSE Ok([bal |-> BalanceSub(FindBalance(s.previous).some, s.balance),
             key |-> key.ok, parent |-> Some(s.previous)])

SendDerived(s, key) ==
    IF ~IsOk(key) THEN key
    ELSE Ok([bal |-> s.balance, key |-> key.ok, parent |-> Some(s.previous)])

DeriveSend(s) == SendDerived(s, KeyOrUnreachable(s.previous))

ChangeDerived(c, bal, key) ==
    IF ~IsSome(bal) THEN Err("Unreachable")
    ELSE IF ~IsOk(key) THEN key
    ELSE Ok([bal |-> bal.some, key |-> key.ok, parent |-> Some(c.previous)])

DeriveChange(c) ==
    ChangeDerived(c, FindBalance(c.previous), KeyOrUnreachable(c.previous))

Derive(tx, checked) ==
    CASE tx.type = "Open" -> DeriveOpen(tx, checked)
      [] tx.type = "Receive" -> DeriveReceive(tx, checked)
      [] tx.type = "Send" -> DeriveSend(tx)
      [] tx.type = "Change" -> DeriveChange(tx)

\* Mutant of ForkCheck: only an account without a head is refused a parent.
ForkCheckHeadless(key, parent) == FindHead(key) = None /\ parent # None

ForkCheck(key, parent) == FindHead(key) # parent

MapInsert(m, k, v) == [x \in DOMAIN m \cup {k} |-> IF x = k THEN v ELSE m[x]]

\* Mutant of Commit: a Send moves the head of its destination.
CommitHeadOfDestination(tx, bal, key) ==
    [transactions |-> MapInsert(transactions, Hash(tx), [tx |-> tx, bal |-> bal]),
     heads |-> MapInsert(heads, IF tx.type = "Send" THEN tx.destination ELSE key,
                         Hash(tx)),
     unspent |-> unspent]

\* Mutant of Commit: the block is recorded and the head is left where it was.
CommitWithoutHead(tx, bal, key) ==
    [transactions |-> MapInsert(transactions, Hash(tx), [tx |-> tx, bal |-> bal]),
     heads |-> heads,
     unspent |-> unspent]

\* Mutant of Commit: a block with a parent is recorded under the hash of its
\* parent.
CommitUnderParent(tx, bal, key) ==
    [transactions |-> MapInsert(transactions,
                                IF tx.type = "Open" THEN Hash(tx) ELSE tx.previous,
                                [tx |-> tx, bal |-> bal]),
     heads |-> MapInsert(heads, key, Hash(tx)),
     unspent |-> unspent]

\* Lines 169-171: the writes of a commit.  `unspent` is written nowhere.
Commit(tx, bal, key) ==
    [transactions |-> MapInsert(transactions, Hash(tx), [tx |-> tx, bal |-> bal]),
     heads |-> MapInsert(heads, key, Hash(tx)),
     unspent |-> unspent]

\* Line 172: what insert does once the writes are done.
AfterCommit == "Panic"

Unchanged(result) ==
    [result |-> result, transactions |-> transactions, heads |-> heads,
     unspent |-> unspent]

Committed(c) ==
    [result |-> AfterCommit, transactions |-> c.transactions, heads |-> c.heads,
     unspent |-> c.unspent]

\* Mutant of CheckAndCommit: the block is recorded before the fork check.
CommitBeforeForkCheck(tx, d) ==
    IF ~IsOk(d) THEN Unchanged(d.err)
    ELSE IF ForkCheck(d.ok.key, d.ok.parent)
        THEN [result |-> "Fork",
              transactions |-> Commit(tx, d.ok.bal, d.ok.key).transactions,
              heads |-> heads, unspent |-> unspent]
    ELSE Committed(Commit(tx, d.ok.bal, d.ok.key))

\* Lines 166-172, `d` the (bal, key, parent) derived for tx.
CheckAndCommit(tx, d) ==
    IF ~IsOk(d) THEN Unchanged(d.err)
    ELSE IF ForkCheck(d.ok.key, d.ok.parent) THEN Unchanged("Fork")
    ELSE Committed(Commit(tx, d.ok.bal, d.ok.key))

AfterVerify(v, rest) == IF v # "Ok" THEN Unchanged(v) ELSE rest

InsertOutcome(tx, checked) ==
    AfterVerify(Verify(tx), CheckAndCommit(tx, Derive(tx, checked)))

-----------------------------------------------------------------------------
(* Inputs *)

Works == 0 .. MaxWork

KeyChoices == CurvePoints \cup {NotAPoint}

\* A block its author has built and not yet submitted: the Send of tests.rs.
PendingSend ==
    [type |-> "Send", previous |-> Hash(LIVE_BLOCK), balance |-> BALANCE - 1,
     destination |-> Raw("A"), work |-> 1, signature |-> DefaultSignature]

\* Hashes a submitted block can name: those of stored blocks, 32 bytes that
\* are no block's hash, and the hash of a block not stored yet.
HashChoices == DOMAIN transactions \cup {LIVE_SOURCE, Hash(PendingSend)}

\* Who signs a submitted block: a keypair, or nobody (the default signature).
Signers == CurvePoints \cup {None}

SignedBy(body, signer) ==
    IF signer = None THEN body
    ELSE [body EXCEPT !.signature = Sign(signer, Hash(body))]

OpenTransaction(account, source, representative, work, signer) ==
    SignedBy([type |-> "Open", account |-> account, source |-> source,
              representative |-> representative, work |-> work,
              signature |-> DefaultSignature], signer)

SendTransaction(previous, balance, destination, work, signer) ==
    SignedBy([type |-> "Send", previous |-> previous, balance |-> balance,
              destination |-> destination, work |-> work,
              signature |-> DefaultSignature], signer)

ReceiveTransaction(previous, source, work, signer) ==
    SignedBy([type |-> "Receive", previous |-> previous, source |-> source,
              work |-> work, signature |-> DefaultSignature], signer)

ChangeTransaction(previous, representative, work, signer) ==
    SignedBy([type |-> "Change", previous |-> previous,
              representative |-> representative, work |-> work,
              signature |-> DefaultSignature], signer)

-----------------------------------------------------------------------------
(* The state machine *)

NoCall == [type |-> "None"]

\* Callers that share one Storage, each holding at most one call of insert.
Callers == {"c1", "c2"}

Waiting == [tx |-> NoCall, result |-> "None"]

NoCalls == [c \in Callers |-> Waiting]

\* Mutant of Init: the genesis block is seeded with no funds.
InitUnfunded ==
    /\ transactions = (Hash(LIVE_BLOCK) :> [tx |-> LIVE_BLOCK, bal |-> 0])
    /\ heads = (LIVE_BLOCK.account :> Hash(LIVE_BLOCK))
    /\ unspent = {}
    /\ lastTx = NoCall
    /\ lastResult = "New"
    /\ inFlight = NoCalls

\* Storage::new
Init ==
    /\ transactions = (Hash(LIVE_BLOCK) :> [tx |-> LIVE_BLOCK, bal |-> BALANCE])
    /\ heads = (LIVE_BLOCK.account :> Hash(LIVE_BLOCK))
    /\ unspent = {}
    /\ lastTx = NoCall
    /\ lastResult = "New"
    /\ inFlight = NoCalls

\* One call of insert, begun when the caller holds no earlier result.
Insert(tx) ==
    /\ lastTx = NoCall
    /\ Cardinality(DOMAIN transactions) <= MaxBlocks
    /\ \E checked \in BOOLEAN :
        LET out == InsertOutcome(tx, checked)
        IN  /\ transactions' = out.transactions
            /\ heads' = out.heads
            /\ unspent' = out.unspent
            /\ lastResult' = out.result
            /\ lastTx' = tx
            /\ UNCHANGED inFlight

InsertOpen ==
    \E a \in KeyChoices, s \in HashChoices, w \in Works, k \in Signers :
        Insert(OpenTransaction(a, s, a, w, k))

InsertSend ==
    \E p \in HashChoices, b \in 0 .. BALANCE, d \in CurvePoints, w \in Works,
       k \in Signers :
        Insert(SendTransaction(p, b, d, w, k))

InsertReceive ==
    \E p \in HashChoices, s \in HashChoices, w \in Works, k \in Signers :
        Insert(ReceiveTransaction(p, s, w, k))

InsertChange ==
    \E p \in HashChoices, r \in CurvePoints, w \in Works, k \in Signers :
        Insert(ChangeTransaction(p, r, w, k))

Panics == {"Panic", "PanicUnreachable", "PanicOverflow", "Diverges"}

\* The caller takes the Result that insert returned.
TakeResult ==
    /\ lastTx # NoCall
    /\ lastResult \notin Panics
    /\ lastTx' = NoCall
    /\ lastResult' = "Idle"
    /\ UNCHANGED <<ledger, inFlight>>

\* The caller stops the unwinding of a panic and keeps the Storage.
CatchPanic ==
    /\ lastTx # NoCall
    /\ lastResult \in Panics
    /\ lastTx' = NoCall
    /\ lastResult' = "Idle"
    /\ UNCHANGED <<ledger, inFlight>>

Next ==
    \/ InsertOpen
    \/ InsertSend
    \/ InsertReceive
    \/ InsertChange
    \/ TakeResult
    \/ CatchPanic

Spec == Init /\ [][Next]_vars

-----------------------------------------------------------------------------
(* Vocabulary of the properties *)

\* This step is a call of insert; lastTx' is the block and the unprimed
\* variables are the ledger the call found.
Called == lastTx = NoCall /\ lastTx' # NoCall

StoredSends == {h \in DOMAIN transactions : transactions[h].tx.type = "Send"}

Consumers(h) ==
    {c \in DOMAIN transactions :
        /\ transactions[c].tx.type \in {"Open", "Receive"}
        /\ transactions[c].tx.source = h}

\* tx carries valid work and the signature of `key` over its own hash.
WellFormed(tx, key) ==
    /\ tx.signature = Sign(key, Hash(tx))
    /\ LEReadU64(work_impl(tx, tx.work)) > RAI_WORK_THRESHOLD

GenesisHash == Hash(LIVE_BLOCK)

GenesisOnly == DOMAIN transactions = {GenesisHash}

\* The call passed verify, the derivation and the fork check.
Admitted(tx) ==
    /\ Verify(tx) = "Ok"
    /\ \A checked \in BOOLEAN :
        /\ IsOk(Derive(tx, checked))
        /\ FindHead(Derive(tx, checked).ok.key) = Derive(tx, checked).ok.parent

-----------------------------------------------------------------------------
(* C1 *)

\* C1: whenever insert(block) passes block.verify, the balance/owner
\* derivation and the fork check, it stores the block and returns Ok(()); it
\* never panics after the commit.
C1_CommitReturnsOk ==
    [][(Called /\ Admitted(lastTx'))
        => /\ lastResult' = "Ok"
           /\ Hash(lastTx') \in DOMAIN transactions']_vars

-----------------------------------------------------------------------------
(* C2 *)

\* C2: from a ledger seeded only with genesis, a well-formed
\* Send(previous = genesis, balance = B <= genesis balance, destination = D)
\* for an account D without a chain is inserted with success, and then a
\* well-formed Open(account = D, source = hash(Send)) is inserted with success
\* and find_balance(hash(Open)) is genesis balance - B.
C2_SendThenOpen ==
    [][/\ (/\ Called
           /\ GenesisOnly
           /\ lastTx'.type = "Send"
           /\ lastTx'.previous = GenesisHash
           /\ lastTx'.destination \notin DOMAIN heads
           /\ WellFormed(lastTx', LIVE_KEY))
          => lastResult' = "Ok"
       /\ (/\ Called
           /\ lastTx'.type = "Open"
           /\ lastTx'.account \notin DOMAIN heads
           /\ WellFormed(lastTx', lastTx'.account)
           /\ lastTx'.source \in StoredSends
           /\ DOMAIN transactions = {GenesisHash, lastTx'.source}
           /\ transactions[lastTx'.source].tx.previous = GenesisHash
           /\ transactions[lastTx'.source].tx.destination = lastTx'.account)
          => /\ lastResult' = "Ok"
             /\ Hash(lastTx') \in DOMAIN transactions'
             /\ transactions'[Hash(lastTx')].bal
                    = BALANCE - transactions[lastTx'.source].tx.balance]_vars

-----------------------------------------------------------------------------
(* C3 *)

\* C3: no double spend: every stored Send is the `source` of at most one
\* stored Open or Receive block.
C3_NoDoubleSpend == \A h \in StoredSends : Cardinality(Consumers(h)) <= 1

\* A stored Send, and a well-formed Open or Receive of its destination that
\* names it as source has been submitted.
C3_Witness ==
    /\ lastTx # NoCall
    /\ lastTx.type \in {"Open", "Receive"}
    /\ lastTx.source \in StoredSends
    /\ lastResult = "Received"

-----------------------------------------------------------------------------
(* C4 *)

Successors(h) ==
    {c \in DOMAIN transactions :
        /\ transactions[c].tx.type # "Open"
        /\ transactions[c].tx.previous = h}

RECURSIVE ChainFrom(_, _)
\* The hashes met walking `previous` from h down to an Open block.
ChainFrom(h, fuel) ==
    IF fuel = 0 \/ h \notin DOMAIN transactions THEN {}
    ELSE IF transactions[h].tx.type = "Open" THEN {h}
    ELSE {h} \cup ChainFrom(transactions[h].tx.previous, fuel - 1)

OwnedBy(k) == {h \in DOMAIN transactions : FindKey(h) = Some(k)}

SimplePaths ==
    /\ \A h \in DOMAIN transactions : Cardinality(Successors(h)) <= 1
    /\ \A h \in DOMAIN transactions :
        IsSome(FindKey(h)) /\ FindKey(h).some \in DOMAIN heads
    /\ \A k \in DOMAIN heads :
        /\ heads[k] \in DOMAIN transactions
        /\ ChainFrom(heads[k], Cardinality(DOMAIN transactions)) = OwnedBy(k)

\* The call stored its block.
Stored == Called /\ transactions' # transactions

\* C4: no fork: every stored block is the `previous` of at most one stored
\* block, every stored non-Open block named the head of its account as
\* `previous` when it was inserted, and the blocks of each account are the
\* path from heads[account] down to its Open block.
C4_NoFork ==
    /\ []SimplePaths
    /\ [][(Stored /\ lastTx'.type # "Open")
            => /\ IsSome(FindKey(lastTx'.previous))
               /\ FindHead(FindKey(lastTx'.previous).some)
                    = Some(lastTx'.previous)]_vars

\* The genesis account's chain has grown by two blocks, one after the other.
C4_Witness ==
    \E h \in DOMAIN transactions :
        /\ transactions[h].tx.type # "Open"
        /\ transactions[h].tx.previous # GenesisHash
        /\ heads[LIVE_KEY] = h

-----------------------------------------------------------------------------
(* C5 *)

\* What a stored Send moved: balance at its `previous` minus its balance.
SentAmount(h) ==
    transactions[transactions[h].tx.previous].bal - transactions[h].tx.balance

RECURSIVE SumHeads(_)
SumHeads(keys) ==
    IF keys = {} THEN 0
    ELSE LET k == CHOOSE x \in keys : TRUE
         IN  transactions[heads[k]].bal + SumHeads(keys \ {k})

RECURSIVE SumSent(_)
SumSent(sends) ==
    IF sends = {} THEN 0
    ELSE LET h == CHOOSE x \in sends : TRUE
         IN  SentAmount(h) + SumSent(sends \ {h})

Unconsumed == {h \in StoredSends : Consumers(h) = {}}

\* C5: balances are conserved: the cached balances at the heads of all
\* accounts plus the amounts of the Sends not yet consumed add up to the
\* genesis balance, no amount being negative.
C5_Conserved ==
    /\ SumHeads(DOMAIN heads) + SumSent(Unconsumed) = BALANCE
    /\ \A h \in StoredSends : SentAmount(h) \in 0 .. BALANCE
    /\ \A k \in DOMAIN heads : transactions[heads[k]].bal \in 0 .. BALANCE

\* Two Sends that moved funds are stored.
C5_Witness ==
    \E h1, h2 \in Unconsumed :
        h1 # h2 /\ SentAmount(h1) > 0 /\ SentAmount(h2) > 0

-----------------------------------------------------------------------------
(* C6 *)

\* C6: a stored Send is unspent exactly until an Open or Receive naming it
\* as source is stored, and every member of unspent is a stored Send.
C6_UnspentTracksSends == unspent = Unconsumed

-----------------------------------------------------------------------------
(* C7 *)

\* C7: a well-formed Open derived from a stored Send to its account is
\* inserted with success the first time and fails with Received when the
\* same block is inserted again.
C7_SecondOpenReceived ==
    [][(/\ Called
        /\ lastTx'.type = "Open"
        /\ WellFormed(lastTx', lastTx'.account)
        /\ lastTx'.source \in StoredSends
        /\ transactions[lastTx'.source].tx.destination = lastTx'.account)
       => IF Hash(lastTx') \in DOMAIN transactions
          THEN lastResult' = "Received"
          ELSE (Consumers(lastTx'.source) = {}
                /\ lastTx'.account \notin DOMAIN heads)
               => (lastResult' = "Ok"
                   /\ Hash(lastTx') \in DOMAIN transactions')]_vars

-----------------------------------------------------------------------------
(* C8 *)

\* C8: a block that passes verify and whose required parent is not the
\* head of its owning key fails with Fork, and nothing is written.
C8_ForkRejected ==
    [][(/\ Called
        /\ Verify(lastTx') = "Ok"
        /\ IsOk(Derive(lastTx', TRUE))
        /\ FindHead(Derive(lastTx', TRUE).ok.key)
             # Derive(lastTx', TRUE).ok.parent)
       => (lastResult' = "Fork" /\ UNCHANGED ledger)]_vars

\* A verified block naming a parent that is no longer the head was refused.
C8_Witness ==
    /\ lastTx # NoCall
    /\ lastResult = "Fork"
    /\ Verify(lastTx) = "Ok"
    /\ lastTx.previous # heads[LIVE_KEY]

-----------------------------------------------------------------------------
(* C9 *)

StoredOpens == {h \in DOMAIN transactions : transactions[h].tx.type = "Open"}

OneOpenAtRoot ==
    /\ \A h1, h2 \in StoredOpens :
        transactions[h1].tx.account = transactions[h2].tx.account => h1 = h2
    /\ \A k \in DOMAIN heads :
        /\ IsSome(FindOpen(heads[k]))
        /\ FindOpen(heads[k]).some.account = k
    /\ \A h \in StoredOpens : Successors(h) \cap StoredOpens = {}

\* C9: every account has at most one stored Open block, the root of its
\* chain, and an Open for an account that has a head is never admitted: it
\* is refused, with Fork when it passes verify.
C9_OneOpen ==
    /\ []OneOpenAtRoot
    /\ [][(/\ Called
           /\ lastTx'.type = "Open"
           /\ lastTx'.account \in DOMAIN heads)
          => /\ UNCHANGED ledger
             /\ lastResult' \notin {"Ok", "Panic"}
             /\ Verify(lastTx') = "Ok" => lastResult' = "Fork"]_vars

\* A well-formed Open for the genesis account, naming a stored Send to that
\* account, was refused.
C9_Witness ==
    /\ lastTx # NoCall
    /\ lastTx.type = "Open"
    /\ lastTx.account \in DOMAIN heads
    /\ WellFormed(lastTx, lastTx.account)
    /\ lastTx.source \in StoredSends
    /\ transactions[lastTx.source].tx.destination = lastTx.account
    /\ lastResult \notin {"Ok", "Panic"}

-----------------------------------------------------------------------------
(* C10 *)

\* C10: a Send with valid work, a stored `previous` and a valid signature
\* fails with OverSend iff its balance is strictly greater than
\* find_balance(previous); otherwise it passes the balance check.
C10_OverSend ==
    [][(/\ Called
        /\ lastTx'.type = "Send"
        /\ lastTx'.previous \in DOMAIN transactions
        /\ IsSome(FindKey(lastTx'.previous))
        /\ WellFormed(lastTx', FindKey(lastTx'.previous).some))
       => IF lastTx'.balance > transactions[lastTx'.previous].bal
          THEN lastResult' = "OverSend"
          ELSE lastResult' \in {"Fork", "Panic", "Ok"}]_vars

\* A well-formed Send declaring more than the balance at `previous` was
\* refused with OverSend.
C10_Witness ==
    /\ lastTx # NoCall
    /\ lastTx.type = "Send"
    /\ lastResult = "OverSend"
    /\ lastTx.balance = transactions[lastTx.previous].bal + 1

-----------------------------------------------------------------------------
(* C11 *)

\* C11: whenever insert returns a Failure, transactions, heads and unspent
\* are exactly what they were before the call.
C11_FailureWritesNothing ==
    [][(Called /\ lastResult' \in Failure) => UNCHANGED ledger]_vars

\* A Change that passed every check but the last one, the fork check, was
\* refused.
C11_Witness ==
    /\ lastTx # NoCall
    /\ lastTx.type = "Change"
    /\ lastResult = "Fork"
    /\ lastResult \in Failure

-----------------------------------------------------------------------------
(* C12 *)

\* C12: append-only and immutable: no step removes a key from transactions
\* or heads or changes the (block, balance) stored under a hash, and insert
\* of a block whose hash is already stored is refused without a write,
\* whatever its work and signature.
C12_AppendOnly ==
    [][/\ DOMAIN transactions \subseteq DOMAIN transactions'
       /\ DOMAIN heads \subseteq DOMAIN heads'
       /\ \A h \in DOMAIN transactions : transactions'[h] = transactions[h]
       /\ (Called /\ Hash(lastTx') \in DOMAIN transactions)
            => (lastResult' \in Failure /\ UNCHANGED ledger)]_vars

\* A block with the hash of a stored block, another valid nonce and a valid
\* signature was submitted.
C12_Witness ==
    /\ lastTx # NoCall
    /\ Hash(lastTx) \in DOMAIN transactions
    /\ lastTx.work # transactions[Hash(lastTx)].tx.work
    /\ verify_work(lastTx) = "Ok"
    /\ SignatureVerify(LIVE_KEY, Hash(lastTx), lastTx.signature)
    /\ Cardinality(DOMAIN transactions) > 1

-----------------------------------------------------------------------------
(* C13 *)

\* The digest read as a little-endian number: the first digit weighs least.
WorkValue(tx) == work_impl(tx, tx.work)[1] + 4 * work_impl(tx, tx.work)[2]

\* C13: verify_work passes iff the little-endian value of the work digest is
\* strictly greater than the threshold; a value equal to it or below it is
\* Failure::Work.  Send and Receive check the work first, so there the
\* result of insert is Work exactly for those values; Open and Change check
\* the signature before it.
C13_WorkThreshold ==
    [][Called =>
        /\ (verify_work(lastTx') = "Ok") <=> (WorkValue(lastTx') > RAI_WORK_THRESHOLD)
        /\ (verify_work(lastTx') = "Work") <=> (WorkValue(lastTx') <= RAI_WORK_THRESHOLD)
        /\ lastResult' = "Work" => WorkValue(lastTx') <= RAI_WORK_THRESHOLD
        /\ lastTx'.type \in {"Send", "Receive"}
            => (lastResult' = "Work" <=> WorkValue(lastTx') <= RAI_WORK_THRESHOLD)
        /\ WorkValue(lastTx') <= RAI_WORK_THRESHOLD
            => lastResult' \in {"Work", "Signature", "Missing"}]_vars

\* A Send whose digest reads exactly the threshold was refused with Work.
C13_Witness ==
    /\ lastTx # NoCall
    /\ lastTx.type = "Send"
    /\ WorkValue(lastTx) = RAI_WORK_THRESHOLD
    /\ lastResult = "Work"

-----------------------------------------------------------------------------
(* C14 *)

\* The blocks a caller can submit in this state.
Submittable ==
    {OpenTransaction(a, s, a, w, k) :
        a \in KeyChoices, s \in HashChoices, w \in Works, k \in Signers}
    \cup {SendTransaction(p, b, d, w, k) :
            p \in HashChoices, b \in 0 .. BALANCE, d \in CurvePoints,
            w \in Works, k \in Signers}
    \cup {ReceiveTransaction(p, s, w, k) :
            p \in HashChoices, s \in HashChoices, w \in Works, k \in Signers}
    \cup {ChangeTransaction(p, r, w, k) :
            p \in HashChoices, r \in CurvePoints, w \in Works, k \in Signers}

\* What insert(b) would do in this state.
Outcomes(b) == {InsertOutcome(b, checked).result : checked \in BOOLEAN}

FailsWith(b, failures) == Outcomes(b) \cap failures # {}

Refused(b) == Outcomes(b) \subseteq Failure

TerminalAsClaimed ==
    {"Signature", "Fork", "Work", "Received", "OverSend", "Missing", "Invalid"}

Terminal == TerminalAsClaimed \ {"Missing"}

\* C14 as stated: a block that fails with Signature, Fork, Work, Received,
\* OverSend, Missing or Invalid still fails after any further insert.
C14_TerminalFailures ==
    [][Stored =>
        \A b \in Submittable :
            FailsWith(b, TerminalAsClaimed) => Refused(b)']_vars

\* C14 amended: a block that fails with Signature, Fork, Work, Received,
\* OverSend or Invalid fails with one of these after any further insert, so
\* in every later state; Missing is not terminal.
C14_TerminalButMissing ==
    [][Stored =>
        \A b \in Submittable :
            FailsWith(b, Terminal) => (Outcomes(b) \subseteq Terminal)']_vars

\* A Change on genesis with a bad signature is refused for its signature
\* again after the chain has grown past genesis.
C14_Witness ==
    /\ lastTx # NoCall
    /\ lastTx.type = "Change"
    /\ lastTx.previous = GenesisHash
    /\ heads[LIVE_KEY] # GenesisHash
    /\ lastResult = "Signature"

-----------------------------------------------------------------------------
(* C15 *)

\* C15: in every state reachable from genesis by insert calls, insert never
\* returns Failure::Unreachable, whatever the fields of the block.
C15_NeverUnreachable == lastResult # "Unreachable"

\* A Change on top of a Send went through verify and through the lookups of
\* insert that answer Unreachable when they miss.
C15_Witness ==
    /\ lastTx # NoCall
    /\ lastTx.type = "Change"
    /\ lastResult = "Panic"
    /\ transactions[lastTx.previous].tx.type = "Send"

-----------------------------------------------------------------------------
(* C16 *)

Absent(h) == h \notin DOMAIN transactions

HasPrevious(tx) == tx.type \in {"Send", "Receive", "Change"}

HasSource(tx) == tx.type \in {"Open", "Receive"}

NotASend(h) == h \in DOMAIN transactions /\ transactions[h].tx.type # "Send"

\* C16 as stated: a block whose `previous` or `source` is absent from
\* transactions fails with Missing, and a block whose `source` is a stored
\* block that is not a Send fails with Invalid.
C16_MissingAndInvalid ==
    [][Called =>
        /\ (HasPrevious(lastTx') /\ Absent(lastTx'.previous))
            => lastResult' = "Missing"
        /\ (HasSource(lastTx') /\ Absent(lastTx'.source))
            => lastResult' = "Missing"
        /\ (HasSource(lastTx') /\ NotASend(lastTx'.source))
            => lastResult' = "Invalid"]_vars

WorkOk(tx) == WorkValue(tx) > RAI_WORK_THRESHOLD

\* The checks that verify runs before it looks `previous` up.
BeforePrevious(tx) == tx.type = "Change" \/ WorkOk(tx)

\* The checks that verify runs before it looks `source` up.
BeforeSource(tx) ==
    /\ WorkOk(tx)
    /\ IF tx.type = "Open"
       THEN tx.account \in CurvePoints
            /\ tx.signature = Sign(tx.account, Hash(tx))
       ELSE /\ IsSome(FindKey(tx.previous))
            /\ tx.signature = Sign(FindKey(tx.previous).some, Hash(tx))

\* C16 amended: the lookup that misses fails with Missing and a stored
\* source that is not a Send fails with Invalid, when the checks verify runs
\* before that lookup pass (the work for the `previous` of a Send or
\* Receive, the signature and the work for a `source`); and Missing or
\* Invalid is returned for no other reason.
C16_MissingWhenLookedUp ==
    [][Called =>
        /\ (HasPrevious(lastTx') /\ Absent(lastTx'.previous)
                /\ BeforePrevious(lastTx'))
            => lastResult' = "Missing"
        /\ (HasSource(lastTx') /\ Absent(lastTx'.source)
                /\ BeforeSource(lastTx'))
            => lastResult' = "Missing"
        /\ (HasSource(lastTx') /\ NotASend(lastTx'.source)
                /\ BeforeSource(lastTx'))
            => lastResult' = "Invalid"
        /\ lastResult' = "Missing"
            => \/ HasPrevious(lastTx') /\ Absent(lastTx'.previous)
               \/ HasSource(lastTx') /\ Absent(lastTx'.source)
        /\ lastResult' = "Invalid"
            => /\ HasSource(lastTx')
               /\ ~Absent(lastTx'.source)
               /\ \/ NotASend(lastTx'.source)
                  \/ transactions[lastTx'.source].tx.destination
                        # (IF lastTx'.type = "Open" THEN lastTx'.account
                           ELSE FindKey(lastTx'.previous).some)]_vars

\* A Receive with valid work and signature on a stored `previous`, naming a
\* source that is not stored, was refused with Missing.
C16_Witness ==
    /\ lastTx # NoCall
    /\ lastTx.type = "Receive"
    /\ ~Absent(lastTx.previous)
    /\ Absent(lastTx.source)
    /\ BeforeSource(lastTx)
    /\ lastResult = "Missing"

-----------------------------------------------------------------------------
(* C17 *)

\* C17: a Send that sends a zero amount (its declared balance equals the
\* balance at `previous`) is rejected with Failure::ZeroSend.
C17_ZeroSend ==
    [][(/\ Called
        /\ lastTx'.type = "Send"
        /\ ~Absent(lastTx'.previous)
        /\ IsSome(FindKey(lastTx'.previous))
        /\ WellFormed(lastTx', FindKey(lastTx'.previous).some)
        /\ lastTx'.balance = transactions[lastTx'.previous].bal)
       => lastResult' = "ZeroSend"]_vars

-----------------------------------------------------------------------------
(* C18 *)

\* C18: inserting a block whose hash is already recorded in transactions
\* fails with Failure::Duplicate.
C18_Duplicate ==
    [][(/\ Called
        /\ ~Absent(Hash(lastTx'))
        /\ lastTx' = transactions[Hash(lastTx')].tx)
       => lastResult' = "Duplicate"]_vars

-----------------------------------------------------------------------------
(* C19 *)

\* The signatures a block can carry: one of a keypair over its hash, or the
\* default one.
SignatureChoices(tx) ==
    {Sign(k, Hash(tx)) : k \in CurvePoints} \cup {DefaultSignature}

\* The blocks that differ from tx only in `work` and `signature`.
Resealed(tx) ==
    {[tx EXCEPT !.work = w, !.signature = s] :
        w \in Works, s \in SignatureChoices(tx)}

\* C19: the hash of a block is a function of its semantic fields only: any
\* block that differs from a submitted one only in `work` and/or
\* `signature` has the same hash, and the hash under which a block is stored
\* is the hash recomputed from the stored block.
C19_HashOfSemanticFields ==
    [][Called =>
        /\ \A other \in Resealed(lastTx') : Hash(other) = Hash(lastTx')
        /\ \A h \in DOMAIN transactions' :
            /\ Hash(transactions'[h].tx) = h
            /\ \A other \in Resealed(transactions'[h].tx) : Hash(other) = h]_vars

\* A block with the hash of a stored block and another nonce and another
\* signature was submitted.
C19_Witness ==
    /\ lastTx # NoCall
    /\ ~Absent(Hash(lastTx))
    /\ GenesisHash # Hash(lastTx)
    /\ lastTx.work # transactions[Hash(lastTx)].tx.work
    /\ lastTx.signature # transactions[Hash(lastTx)].tx.signature

-----------------------------------------------------------------------------
(* C20 *)

\* What the lookups answer about the block of this call once it has returned:
\* the stored block hashes to its key, the head of the owning key is that
\* hash and the cached balance is the one derived for the block.
RoundTrip(h, d) ==
    /\ h \in DOMAIN transactions'
    /\ Hash(transactions'[h].tx) = h
    /\ d.key \in DOMAIN heads'
    /\ heads'[d.key] = h
    /\ transactions'[h].bal = d.bal

\* C20: an admissible block is inserted with success, and after that
\* lookup(hash(b)) is a block whose re-derived hash is hash(b),
\* find_head(owning key of b) is hash(b) and find_balance(hash(b)) is the
\* balance derived for b.
C20_RoundTrip ==
    [][(Called /\ Admitted(lastTx'))
        => /\ lastResult' = "Ok"
           /\ RoundTrip(Hash(lastTx'), Derive(lastTx', TRUE).ok)]_vars

-----------------------------------------------------------------------------
(* C22 *)

\* The account whose chain a block extends.
Owner(tx) == IF tx.type = "Open" THEN Some(tx.account) ELSE FindKey(tx.previous)

FundsReachDestination ==
    \A h \in DOMAIN transactions \ {GenesisHash} :
        HasSource(transactions[h].tx)
        => /\ transactions[h].tx.source \in StoredSends
           /\ Some(transactions[transactions[h].tx.source].tx.destination)
                = FindKey(h)

\* An Open or Receive of a known account names a stored Send to another one.
NamesForeignSend(tx) ==
    /\ HasSource(tx)
    /\ tx.source \in StoredSends
    /\ IsSome(Owner(tx))
    /\ transactions[tx.source].tx.destination # Owner(tx).some

\* C22 as stated: every stored Open or Receive other than genesis has as
\* source a stored Send to the account that owns its chain, and an Open or
\* Receive whose source Send names another destination is rejected with
\* Invalid.
C22_OnlyDestination ==
    /\ []FundsReachDestination
    /\ [][(Called /\ NamesForeignSend(lastTx'))
            => lastResult' = "Invalid"]_vars

\* C22 amended: the same, the rejection being with Invalid when the
\* signature and the work of the block are valid, and with the failure of
\* the signature or work check otherwise; nothing is written in either case.
C22_OnlyDestinationChecked ==
    /\ []FundsReachDestination
    /\ [][(Called /\ NamesForeignSend(lastTx'))
            => /\ lastResult' \in {"Invalid", "Signature", "Work"}
               /\ BeforeSource(lastTx') => lastResult' = "Invalid"
               /\ UNCHANGED ledger]_vars

\* A well-formed Open of an account naming a Send to another account was
\* rejected with Invalid.
C22_Witness ==
    /\ lastTx # NoCall
    /\ lastTx.type = "Open"
    /\ NamesForeignSend(lastTx)
    /\ BeforeSource(lastTx)
    /\ lastResult = "Invalid"

-----------------------------------------------------------------------------
(* C23 *)

SignedByOwner ==
    \A h \in DOMAIN transactions \ {GenesisHash} :
        /\ IsSome(FindKey(h))
        /\ SignatureVerify(FindKey(h).some, h, transactions[h].tx.signature)

\* C23: only the account owner extends a chain: a Send, Receive or Change is
\* stored only if its signature verifies against find_open(previous).account
\* and an Open only if it verifies against its own account, so every stored
\* block other than genesis carries the signature of the key of the account
\* whose chain contains it.
C23_OwnerSigns ==
    /\ []SignedByOwner
    /\ [][Stored
            => /\ IsSome(Owner(lastTx'))
               /\ TryIntoPublicKey(Owner(lastTx').some)
               /\ SignatureVerify(Owner(lastTx').some, Hash(lastTx'),
                                  lastTx'.signature)]_vars

\* A Send on the genesis chain with valid work and funds, signed over its
\* hash by the keypair of another account, was refused with Signature.
C23_Witness ==
    /\ lastTx # NoCall
    /\ lastTx.type = "Send"
    /\ lastTx.previous = heads[LIVE_KEY]
    /\ lastTx.signature = Sign(Raw("A"), Hash(lastTx))
    /\ WorkOk(lastTx)
    /\ lastTx.balance <= transactions[lastTx.previous].bal
    /\ lastResult = "Signature"

-----------------------------------------------------------------------------
(* C24 *)

OpenSigOk(tx) ==
    tx.account \in CurvePoints /\ tx.signature = Sign(tx.account, Hash(tx))

\* The source is a stored Send to `account`.
SendTo(source, account) ==
    source \in StoredSends /\ transactions[source].tx.destination = account

\* C24: Open.verify checks the signature, the work, the source (stored, a
\* Send, to this account) and its unspent status, in this order, and returns
\* the failure of the first check that fails.
C24_OpenOrder ==
    [][(Called /\ lastTx'.type = "Open") =>
        /\ ~OpenSigOk(lastTx') => lastResult' = "Signature"
        /\ (OpenSigOk(lastTx') /\ ~WorkOk(lastTx')) => lastResult' = "Work"
        /\ (OpenSigOk(lastTx') /\ WorkOk(lastTx'))
            => IF Absent(lastTx'.source) THEN lastResult' = "Missing"
               ELSE IF ~SendTo(lastTx'.source, lastTx'.account)
                   THEN lastResult' = "Invalid"
               ELSE IF lastTx'.source \notin unspent
                   THEN lastResult' = "Received"
               ELSE lastResult' \notin {"Signature", "Work", "Missing",
                                        "Invalid", "Received"}
        /\ lastResult' = "Received"
            => /\ SendTo(lastTx'.source, lastTx'.account)
               /\ lastTx'.source \notin unspent]_vars

\* An Open with a bad signature, invalid work and an absent source failed
\* with Signature.
C24_Witness ==
    /\ lastTx # NoCall
    /\ lastTx.type = "Open"
    /\ ~OpenSigOk(lastTx)
    /\ ~WorkOk(lastTx)
    /\ Absent(lastTx.source)
    /\ lastResult = "Signature"

-----------------------------------------------------------------------------
(* C25 *)

ChainSigOk(tx) ==
    /\ IsSome(FindKey(tx.previous))
    /\ tx.signature = Sign(FindKey(tx.previous).some, Hash(tx))

\* C25: Send.verify and Receive.verify check the work, then resolve the key
\* and check the signature, then the balance (Send) or the source, its
\* destination and its unspent status (Receive); the first failure is
\* returned, and OverSend only after the work and the signature passed.
C25_WorkFirst ==
    [][(Called /\ lastTx'.type \in {"Send", "Receive"}) =>
        /\ ~WorkOk(lastTx') => lastResult' = "Work"
        /\ (WorkOk(lastTx') /\ Absent(lastTx'.previous))
            => lastResult' = "Missing"
        /\ (WorkOk(lastTx') /\ ~Absent(lastTx'.previous)
                /\ ~ChainSigOk(lastTx'))
            => lastResult' = "Signature"
        /\ (lastTx'.type = "Send" /\ lastResult' = "OverSend")
            => /\ WorkOk(lastTx')
               /\ ChainSigOk(lastTx')
               /\ lastTx'.balance > transactions[lastTx'.previous].bal
        /\ (lastTx'.type = "Receive" /\ WorkOk(lastTx')
                /\ ChainSigOk(lastTx'))
            => IF Absent(lastTx'.source) THEN lastResult' = "Missing"
               ELSE IF ~SendTo(lastTx'.source, FindKey(lastTx'.previous).some)
                   THEN lastResult' = "Invalid"
               ELSE IF lastTx'.source \notin unspent
                   THEN lastResult' = "Received"
               ELSE lastResult' \notin {"Signature", "Work", "Missing",
                                        "Invalid", "Received"}]_vars

\* A Send with invalid work, an absent `previous` and no signature failed
\* with Work.
C25_Witness ==
    /\ lastTx # NoCall
    /\ lastTx.type = "Send"
    /\ ~WorkOk(lastTx)
    /\ Absent(lastTx.previous)
    /\ lastTx.signature = DefaultSignature
    /\ lastResult = "Work"

-----------------------------------------------------------------------------
(* C26 *)

\* C26: Change.verify resolves the key and checks the signature before the
\* work: an absent `previous` is Missing and a bad signature is Signature
\* whatever the work, and Work is returned only when the signature verifies.
C26_ChangeSignatureFirst ==
    [][(Called /\ lastTx'.type = "Change") =>
        /\ Absent(lastTx'.previous) => lastResult' = "Missing"
        /\ (~Absent(lastTx'.previous) /\ ~ChainSigOk(lastTx'))
            => lastResult' = "Signature"
        /\ (ChainSigOk(lastTx') /\ ~WorkOk(lastTx')) => lastResult' = "Work"
        /\ lastResult' = "Work"
            => (ChainSigOk(lastTx') /\ ~WorkOk(lastTx'))]_vars

\* A Change on a stored block with a bad signature and invalid work failed
\* with Signature.
C26_Witness ==
    /\ lastTx # NoCall
    /\ lastTx.type = "Change"
    /\ ~Absent(lastTx.previous)
    /\ ~ChainSigOk(lastTx)
    /\ ~WorkOk(lastTx)
    /\ lastResult = "Signature"

-----------------------------------------------------------------------------
(* C27 *)

\* C27: if S is a stored Send to account D that no stored block has
\* consumed and D has a chain with head h, a well-formed
\* Receive(previous = h, source = hash(S)) is inserted with success, becomes
\* heads[D] and caches find_balance(h) + (find_balance(S.previous) - S.balance).
C27_ReceiveCredits ==
    [][(/\ Called
        /\ lastTx'.type = "Receive"
        /\ lastTx'.previous \in DOMAIN transactions
        /\ ChainSigOk(lastTx')
        /\ WorkOk(lastTx')
        /\ FindHead(FindKey(lastTx'.previous).some) = Some(lastTx'.previous)
        /\ SendTo(lastTx'.source, FindKey(lastTx'.previous).some)
        /\ Consumers(lastTx'.source) = {})
       => /\ lastResult' = "Ok"
          /\ heads'[FindKey(lastTx'.previous).some] = Hash(lastTx')
          /\ Hash(lastTx') \in DOMAIN transactions'
          /\ transactions'[Hash(lastTx')].bal
                = transactions[lastTx'.previous].bal + SentAmount(lastTx'.source)]_vars

-----------------------------------------------------------------------------
(* C28 *)

\* What a commit may change: the entry of the new block and the head of
\* `owner`; no stored entry, no other head and not the unspent set.
OnlyHeadAndEntry(h, owner) ==
    /\ DOMAIN transactions' = DOMAIN transactions \cup {h}
    /\ \A x \in DOMAIN transactions \ {h} : transactions'[x] = transactions[x]
    /\ DOMAIN heads' = DOMAIN heads \cup {owner}
    /\ \A k \in DOMAIN heads \ {owner} : heads'[k] = heads[k]
    /\ heads'[owner] = h
    /\ unspent' = unspent

\* C28: an admissible Change is inserted with success and moves no funds:
\* its cached balance is find_balance(previous), and only heads[owner] and
\* the new transactions entry change.
C28_ChangeMovesNothing ==
    [][(Called /\ lastTx'.type = "Change" /\ Admitted(lastTx'))
        => /\ lastResult' = "Ok"
           /\ transactions'[Hash(lastTx')].bal
                = transactions[lastTx'.previous].bal
           /\ OnlyHeadAndEntry(Hash(lastTx'), FindKey(lastTx'.previous).some)]_vars

-----------------------------------------------------------------------------
(* C29 *)

\* C29: the balance derivations of insert never wrap: no call ends in an
\* arithmetic overflow, a derivation that runs gives the same value with
\* overflow checks on and off, and for every stored Send the balance at its
\* `previous` is at least its own, so that prev_bal - bal does not underflow.
C29_NoWrap ==
    /\ [](lastResult # "PanicOverflow")
    /\ [](\A h \in StoredSends :
            ~SubOverflows(transactions[transactions[h].tx.previous].bal,
                          transactions[h].bal))
    /\ [][(Called /\ Verify(lastTx') = "Ok")
            => /\ Derive(lastTx', TRUE) # Err("PanicOverflow")
               /\ Derive(lastTx', FALSE) = Derive(lastTx', TRUE)]_vars

\* A well-formed Receive on genesis of a Send that moved funds to the
\* genesis account, whose sum would pass the maximum, was submitted.
C29_Witness ==
    /\ lastTx # NoCall
    /\ lastTx.type = "Receive"
    /\ lastTx.previous = GenesisHash
    /\ ChainSigOk(lastTx)
    /\ WorkOk(lastTx)
    /\ SendTo(lastTx.source, LIVE_KEY)
    /\ AddOverflows(transactions[lastTx.previous].bal, SentAmount(lastTx.source))
    /\ lastResult = "Received"

-----------------------------------------------------------------------------
(* C30 *)

\* The Open blocks met walking `previous` from h.
RootsOf(h) ==
    {transactions[x].tx :
        x \in {y \in ChainFrom(h, Cardinality(DOMAIN transactions)) :
                    transactions[y].tx.type = "Open"}}

\* A stored block that is not an Open names a `previous` that is not stored.
Corrupt ==
    \E h \in DOMAIN transactions :
        /\ transactions[h].tx.type # "Open"
        /\ Absent(transactions[h].tx.previous)

FindsRoot(h) ==
    /\ IsSome(FindOpen(h))
    /\ RootsOf(h) = {FindOpen(h).some}
    /\ transactions[h].tx.type = "Open" => FindOpen(h).some = transactions[h].tx

\* C30 as stated: find_open(h) for a stored hash h is the Open block at the
\* root of the chain of h (the block itself when it is an Open), and
\* find_open is None only when the ledger is structurally corrupt.
C30_FindOpenRoot ==
    \A h \in HashChoices :
        /\ ~Absent(h) => FindsRoot(h)
        /\ FindOpen(h) = None => Corrupt

\* C30 amended: find_open(h) for a stored hash h is the Open block at the
\* root of the chain of h, and find_open(h) is None exactly when h is not
\* stored; the ledger is never corrupt.
C30_FindOpenRootOrAbsent ==
    /\ ~Corrupt
    /\ \A h \in HashChoices :
        IF Absent(h) THEN FindOpen(h) = None ELSE FindsRoot(h)

\* The genesis chain holds three blocks and find_open of its head is the
\* genesis block, while a hash that is not stored has no Open.
C30_Witness ==
    /\ Cardinality(DOMAIN transactions) >= 3
    /\ transactions[heads[LIVE_KEY]].tx.previous # GenesisHash
    /\ FindOpen(heads[LIVE_KEY]) = Some(LIVE_BLOCK)
    /\ FindOpen(Hash(PendingSend)) = None

-----------------------------------------------------------------------------
(* Concurrent callers: insert takes &mut self, so a call runs alone from *)
(* its first check to its last write; calls of different callers interleave. *)

\* The blocks an owner builds on the ledger as it stands: valid work, the
\* signature of the key of the chain, an amount the chain holds.
Sealed ==
    {SendTransaction(p, b, d, 1, FindKey(p).some) :
        p \in DOMAIN transactions, b \in 0 .. BALANCE, d \in CurvePoints}
    \cup {ChangeTransaction(p, LIVE_KEY, 1, FindKey(p).some) :
            p \in DOMAIN transactions}
    \cup {ReceiveTransaction(p, s, 1, FindKey(p).some) :
            p \in DOMAIN transactions, s \in StoredSends}
    \cup {OpenTransaction(a, s, a, 0, a) : a \in CurvePoints, s \in StoredSends}

ConcurrentInit ==
    /\ transactions = (Hash(LIVE_BLOCK) :> [tx |-> LIVE_BLOCK, bal |-> BALANCE])
    /\ heads = (LIVE_BLOCK.account :> Hash(LIVE_BLOCK))
    /\ unspent = {}
    /\ lastTx = NoCall
    /\ lastResult = "New"
    /\ inFlight = NoCalls

\* Caller c builds a block on the ledger it sees and calls insert.
Submit(c) ==
    /\ inFlight[c] = Waiting
    /\ Cardinality(DOMAIN transactions) < MaxBlocks
    /\ \E tx \in Sealed :
        inFlight' = [inFlight EXCEPT ![c] = [tx |-> tx, result |-> "Pending"]]
    /\ UNCHANGED <<ledger, lastTx, lastResult>>

\* The call of caller c runs, from verify to the last write, as one step.
Execute(c) ==
    /\ inFlight[c].result = "Pending"
    /\ \E checked \in BOOLEAN :
        LET out == InsertOutcome(inFlight[c].tx, checked)
        IN  /\ transactions' = out.transactions
            /\ heads' = out.heads
            /\ unspent' = out.unspent
            /\ inFlight' = [inFlight EXCEPT ![c].result = out.result]
    /\ UNCHANGED <<lastTx, lastResult>>

\* Caller c takes the result of its call (or stops the unwinding).
Return(c) ==
    /\ inFlight[c].result \notin {"None", "Pending"}
    /\ inFlight' = [inFlight EXCEPT ![c] = Waiting]
    /\ UNCHANGED <<ledger, lastTx, lastResult>>

SubmitSome == \E c \in Callers : Submit(c)

ExecuteSome == \E c \in Callers : Execute(c)

ReturnSome == \E c \in Callers : Return(c)

ConcurrentNext ==
    \/ SubmitSome
    \/ ExecuteSome
    \/ ReturnSome

SpecConcurrent == ConcurrentInit /\ [][ConcurrentNext]_vars

-----------------------------------------------------------------------------
(* C21 *)

WasAdmitted(call) == call.result \in {"Ok", "Panic"}

\* Two blocks that need the same parent: the same `previous`, or two Opens
\* of one account.
SameParent(t1, t2) ==
    IF t1.type = "Open" \/ t2.type = "Open"
    THEN t1.type = t2.type /\ t1.account = t2.account
    ELSE t1.previous = t2.previous

SameSource(t1, t2) ==
    HasSource(t1) /\ HasSource(t2) /\ t1.source = t2.source

\* C21: with insert one atomic step over the whole Storage, in every
\* interleaving of the callers at most one of two blocks naming the same
\* required parent is admitted, and at most one of two blocks naming the
\* same source Send; so no stored block has two successors or two consumers.
C21_AtomicInserts ==
    /\ \A c1, c2 \in Callers :
        (c1 # c2 /\ WasAdmitted(inFlight[c1]) /\ WasAdmitted(inFlight[c2]))
        => /\ ~SameParent(inFlight[c1].tx, inFlight[c2].tx)
           /\ ~SameSource(inFlight[c1].tx, inFlight[c2].tx)
    /\ \A h \in DOMAIN transactions : Cardinality(Successors(h)) <= 1
    /\ \A h \in StoredSends : Cardinality(Consumers(h)) <= 1

\* Two callers built different blocks on the same parent; one was admitted
\* and the other refused with Fork.
C21_Witness ==
    /\ inFlight["c1"].tx # inFlight["c2"].tx
    /\ inFlight["c1"].tx.type = "Send"
    /\ inFlight["c2"].tx.type = "Change"
    /\ SameParent(inFlight["c1"].tx, inFlight["c2"].tx)
    /\ inFlight["c1"].result = "Fork"
    /\ WasAdmitted(inFlight["c2"])

-----------------------------------------------------------------------------
(* C31 *)

\* The hashes met walking `previous` from the parent of the stored block h.
Ancestors(h) ==
    IF transactions[h].tx.type = "Open" THEN {}
    ELSE ChainFrom(transactions[h].tx.previous, Cardinality(DOMAIN transactions))

Acyclic == \A h \in DOMAIN transactions : h \notin Ancestors(h)

\* The walk of find_open from h ends, and ends without a panic.  The walk
\* is deterministic over stored hashes, so one that has not ended after
\* more lookups than there are stored blocks has met a hash twice and never
\* ends.
WalkEnds(h) == FindOpen(h) # Diverges /\ ~IsPanic(FindOpen(h))

\* C31: in every reachable state and for every hash, stored or not, the
\* walk of find_open ends after finitely many `previous` steps and never
\* reaches unreachable!(): no stored chain has a cycle or a `previous` that
\* is not stored.
C31_FindOpenTerminates ==
    /\ \A h \in HashChoices : WalkEnds(h)
    /\ \A k \in DOMAIN heads : WalkEnds(heads[k])
    /\ Acyclic
    /\ ~Corrupt

\* With a chain of three blocks or more under the genesis head, a block
\* naming a `previous` that is not stored was refused with Missing, and the
\* walk from the head still ends at the genesis block.
C31_Witness ==
    /\ Cardinality(Ancestors(heads[LIVE_KEY])) >= 2
    /\ FindOpen(heads[LIVE_KEY]) = Some(LIVE_BLOCK)
    /\ lastTx.type \in {"Send", "Change"}
    /\ Absent(lastTx.previous)
    /\ FindOpen(lastTx.previous) = None
    /\ lastResult = "Missing"

-----------------------------------------------------------------------------
(* C32 *)

\* The accounts from whose head the walk of `previous` links meets h.
HeadsReaching(h) ==
    {k \in DOMAIN heads :
        h \in ChainFrom(heads[k], Cardinality(DOMAIN transactions))}

\* C32: for every account k with heads[k] = h, h is a key of transactions
\* and find_key(h) = k; every stored block is reachable from exactly one
\* account's head by following `previous` links; and find_head(k) is None
\* exactly when no stored block belongs to k.
C32_HeadConsistency ==
    /\ \A k \in DOMAIN heads :
        /\ heads[k] \in DOMAIN transactions
        /\ FindKey(heads[k]) = Some(k)
    /\ \A h \in DOMAIN transactions : Cardinality(HeadsReaching(h)) = 1
    /\ \A k \in KeyChoices \cup DOMAIN heads :
        FindHead(k) = None <=> OwnedBy(k) = {}

\* The genesis head has moved twice, the last time by the call just made,
\* and an account that was sent funds has no block and no head.
C32_Witness ==
    /\ lastTx.type \in {"Send", "Change"}
    /\ heads[LIVE_KEY] = Hash(lastTx)
    /\ lastTx.previous # GenesisHash
    /\ GenesisHash \in Ancestors(heads[LIVE_KEY])
    /\ \E s \in StoredSends :
        /\ transactions[s].tx.destination = Raw("A")
        /\ FindHead(Raw("A")) = None
        /\ OwnedBy(Raw("A")) = {}

-----------------------------------------------------------------------------
(* C33 *)

\* The Storage is as Storage::new left it: no call of insert has been made.
Fresh == lastResult = "New"

\* One transaction, the genesis Open block with the largest 128-bit balance;
\* one head, of the genesis account at the genesis hash; nothing unspent.
GenesisSeed ==
    /\ DOMAIN transactions = {GenesisHash}
    /\ transactions[GenesisHash].tx = LIVE_BLOCK
    /\ LIVE_BLOCK.type = "Open"
    /\ transactions[GenesisHash].bal = U128Modulus - 1
    /\ DOMAIN heads = {LIVE_BLOCK.account}
    /\ heads[LIVE_BLOCK.account] = GenesisHash
    /\ unspent = {}

\* C33: the initial ledger holds exactly one transaction, the genesis Open
\* block with cached balance equal to the 128-bit maximum, heads maps only
\* the genesis account to the genesis hash, and unspent is empty; this state
\* is installed without verify or the fork check, which the genesis block
\* does not pass: given to insert, it is refused and nothing is written.
C33_GenesisSeeded ==
    /\ [](Fresh => GenesisSeed)
    /\ [][(Called /\ lastTx' = LIVE_BLOCK)
            => (lastResult' = "Missing" /\ UNCHANGED ledger)]_vars

\* The genesis block was given to insert on the fresh ledger and refused
\* with Missing, its source being no stored block.
C33_Witness ==
    /\ GenesisOnly
    /\ lastTx = LIVE_BLOCK
    /\ Absent(LIVE_BLOCK.source)
    /\ lastResult = "Missing"

=============================================================================
